---------------------------- MODULE Spec2Model ----------------------------
(***************************************************************************)
(* A model of the enigma crate.  The repository holds two generations of   *)
(* the cipher engine:                                                      *)
(*   - lib.rs (struct Enigma) with components/{rotor,reflector,            *)
(*     plugboard}.rs and utils.rs (ClockInt);                              *)
(*   - machine.rs (struct Machine) with components.rs.                     *)
(* Both are modelled.  Text is a sequence of Unicode code points; a byte   *)
(* string is a sequence of numbers in 0..255.  Rust vectors and arrays are *)
(* 0-based: arrays are functions on 0..25, vectors are TLA+ sequences      *)
(* whose element k+1 is the vector's element k.                            *)
(***************************************************************************)
EXTENDS Integers, Sequences, FiniteSets, TLC

(***************************************************************************)
(* Bounds of the model.                                                    *)
(***************************************************************************)
\* Largest number of characters passed to one machine over all its calls.
MaxInput == 2
\* Largest number of encrypt calls made on one machine.
MaxCalls == 2

\* The number of times a rotor built on its own is turned over.
MaxTurns == 1
\* A walk counts its letters up to MaxLetters; a count of MaxLetters stands
\* for MaxLetters or more.
MaxLetters == 16903

(***************************************************************************)
(* utils.rs                                                                *)
(***************************************************************************)
MAX_VALUE == 26
\* The width of WireSize (u8).
U8 == 256

Wire == 0 .. (MAX_VALUE - 1)

\* str::to_lowercase, on the code points the model uses (below U+0100 and
\* the Kelvin sign U+212A, whose lower case is the ASCII letter k).
to_lowercase_char(c) ==
    IF c >= 65 /\ c <= 90 THEN c + 32
    ELSE IF c >= 192 /\ c <= 222 /\ c # 215 THEN c + 32
    ELSE IF c = 8490 THEN 107
    ELSE c

to_lowercase(s) == [k \in 1 .. Len(s) |-> to_lowercase_char(s[k])]

\* The UTF-8 encoding of one code point (below U+10000): str::as_bytes.
utf8_char(c) ==
    IF c < 128 THEN << c >>
    ELSE IF c < 2048 THEN << 192 + (c \div 64), 128 + (c % 64) >>
    ELSE << 224 + (c \div 4096), 128 + ((c \div 64) % 64), 128 + (c % 64) >>

RECURSIVE as_bytes(_)
as_bytes(s) == IF s = << >> THEN << >> ELSE utf8_char(Head(s)) \o as_bytes(Tail(s))

\* encoding_to_wiring: lower-case the encoding, subtract 97 from every byte,
\* and unwrap the conversion to a 26-element array (which fails on any
\* other length).  The encodings passed are 26 ASCII letters.
encoding_to_wiring(encoding) ==
    LET bytes == as_bytes(to_lowercase(encoding))
    IN  [i \in Wire |-> bytes[i + 1] - 97]

\* impl From<u8> for ClockInt: value.rem_euclid(MAX_VALUE).
ClockInt_from(value) == value % MAX_VALUE

\* impl Add<u8> for ClockInt (u8 addition, then From).
ClockInt_add(self, rhs) == ClockInt_from(self + rhs)

\* impl AddAssign<u8> for ClockInt.
ClockInt_add_assign(self, rhs) == (self + rhs) % MAX_VALUE

\* A subtraction that stops at 0 where Sub<Self> for ClockInt wraps around.
ClockInt_sub_saturating(self, rhs) == IF self >= rhs THEN self - rhs ELSE 0

\* impl Sub<Self> for ClockInt.
ClockInt_sub(self, rhs) ==
    ClockInt_from((self + MAX_VALUE - (rhs % MAX_VALUE)) % MAX_VALUE)

(***************************************************************************)
(* components/rotor.rs                                                     *)
(***************************************************************************)
RotorNames == {"I", "II", "III", "IV", "V", "VI", "VII", "VIII"}

\* impl TryFrom<&str> for RotorName: TRUE iff the name is recognised.
RotorName_try_from(input) == input \in RotorNames

\* The wiring string of each rotor name, as code points.
RotorEncoding(name) ==
    CASE name = "I"    -> <<69,75,77,70,76,71,68,81,86,90,78,84,79,87,89,72,88,85,83,80,65,73,66,82,67,74>>
      [] name = "II"   -> <<65,74,68,75,83,73,82,85,88,66,76,72,87,84,77,67,81,71,90,78,80,89,70,86,79,69>>
      [] name = "III"  -> <<66,68,70,72,74,76,67,80,82,84,88,86,90,78,89,69,73,87,71,65,75,77,85,83,81,79>>
      [] name = "IV"   -> <<69,83,79,86,80,90,74,65,89,81,85,73,82,72,88,76,78,70,84,71,75,68,67,77,87,66>>
      [] name = "V"    -> <<86,90,66,82,71,73,84,89,85,80,83,68,78,72,76,88,65,87,77,74,81,79,70,69,67,75>>
      [] name = "VI"   -> <<74,80,71,86,79,85,77,70,89,81,66,69,78,72,90,82,68,75,65,83,88,76,73,67,84,87>>
      [] name = "VII"  -> <<78,90,74,72,71,82,67,88,77,89,83,87,66,79,85,70,65,73,86,76,80,69,75,81,68,84>>
      [] name = "VIII" -> <<70,75,81,72,84,76,88,79,67,66,74,83,80,68,90,82,65,77,69,87,78,73,85,89,71,86>>

\* The notch positions of each rotor name.
RotorNotches(name) ==
    CASE name = "I"    -> <<16>>
      [] name = "II"   -> <<4>>
      [] name = "III"  -> <<21>>
      [] name = "IV"   -> <<9>>
      [] name = "V"    -> <<25>>
      [] name \in {"VI", "VII", "VIII"} -> <<25, 12>>

\* The for_each of invert_wiring, from element n of the wiring on.
RECURSIVE invert_wiring_from(_, _, _)
invert_wiring_from(wiring, n, inverse_wiring) ==
    IF n >= MAX_VALUE THEN inverse_wiring
    ELSE invert_wiring_from(wiring, n + 1, [inverse_wiring EXCEPT ![wiring[n]] = n])

\* invert_wiring: starting from zeroes, inverse_wiring[wiring[n]] = n for
\* every n in order.
invert_wiring(wiring) == invert_wiring_from(wiring, 0, [w \in Wire |-> 0])

\* The wiring and the inverse wiring Rotor::new computes for a name.
RotorWiring(name) ==
    LET wiring == encoding_to_wiring(to_lowercase(RotorEncoding(name)))
    IN  [wiring |-> wiring, inverse_wiring |-> invert_wiring(wiring)]

\* RotorWiring of every recognised name, computed once.
RotorWirings ==
    [I |-> RotorWiring("I"), II |-> RotorWiring("II"), III |-> RotorWiring("III"),
     IV |-> RotorWiring("IV"), V |-> RotorWiring("V"), VI |-> RotorWiring("VI"),
     VII |-> RotorWiring("VII"), VIII |-> RotorWiring("VIII")]

\* Rotor::new for a recognised name (the caller tests RotorName_try_from).
Rotor_new(name, raw_position, raw_ring_setting) ==
    [name            |-> name,
     position        |-> ClockInt_from(raw_position),
     ring_setting    |-> ClockInt_from(raw_ring_setting),
     wiring          |-> RotorWirings[name].wiring,
     inverse_wiring  |-> RotorWirings[name].inverse_wiring,
     notch_positions |-> RotorNotches(name)]

\* Rotor::at_notch.
Rotor_at_notch(self) ==
    \E k \in 1 .. Len(self.notch_positions) : self.notch_positions[k] = self.position

\* Rotor::turnover advancing the rotor by two positions.
Rotor_turnover_two(self) == [self EXCEPT !.position = ClockInt_add_assign(self.position, 2)]

\* Rotor::turnover.
Rotor_turnover(self) == [self EXCEPT !.position = ClockInt_add_assign(self.position, 1)]

\* Rotor::forward with the ring setting left out of the offset.
Rotor_forward_no_ring(self, letter) ==
    LET offset == self.position
    IN  ClockInt_sub(ClockInt_from(self.wiring[ClockInt_add(offset, letter)]), offset)

\* impl Component for Rotor: forward.
Rotor_forward(self, letter) ==
    LET offset == ClockInt_sub(self.position, self.ring_setting)
    IN  ClockInt_sub(ClockInt_from(self.wiring[ClockInt_add(offset, letter)]), offset)

\* Rotor::backward looking up the forward wiring.
Rotor_backward_forward_wiring(self, letter) ==
    LET offset == ClockInt_sub(self.position, self.ring_setting)
    IN  ClockInt_sub(ClockInt_from(self.wiring[ClockInt_add(offset, letter)]), offset)

\* impl Component for Rotor: backward.
Rotor_backward(self, letter) ==
    LET offset == ClockInt_sub(self.position, self.ring_setting)
    IN  ClockInt_sub(ClockInt_from(self.inverse_wiring[ClockInt_add(offset, letter)]), offset)

(***************************************************************************)
(* components/reflector.rs                                                 *)
(***************************************************************************)
\* Reflector::from_encoding.
Reflector_from_encoding(encoding) == [wiring |-> encoding_to_wiring(encoding)]

\* The encoding Reflector::new selects for a lower-cased type, << >> if none.
ReflectorEncoding(lowered) ==
    CASE lowered = <<97>>  -> <<101,106,109,122,97,108,121,120,118,98,119,102,99,114,113,117,111,110,116,115,112,105,107,104,103,100>>
      [] lowered = <<98>>  -> <<121,114,117,104,113,115,108,100,112,120,110,103,111,107,109,105,101,98,102,122,99,119,118,106,97,116>>
      [] lowered = <<99>>  -> <<102,118,112,106,105,97,111,121,101,100,114,122,120,119,103,99,116,107,117,113,115,98,110,109,104,108>>
      [] lowered = <<105>> -> <<97,98,99,100,101,102,103,104,105,106,107,108,109,110,111,112,113,114,115,116,117,118,119,120,121,122>>
      [] OTHER -> << >>

\* Reflector::new falling back to reflector b for a type it does not know.
Reflector_new_defaulting(reflector_type) ==
    LET encoding == ReflectorEncoding(to_lowercase(reflector_type))
    IN  [res |-> "Ok",
         value |-> Reflector_from_encoding(IF encoding = << >> THEN ReflectorEncoding(<<98>>)
                                           ELSE encoding)]

\* Reflector::new: Ok with the reflector, or Err.
Reflector_new(reflector_type) ==
    LET encoding == ReflectorEncoding(to_lowercase(reflector_type))
    IN  IF encoding = << >>
        THEN [res |-> "Err", kind |-> "reflector"]
        ELSE [res |-> "Ok", value |-> Reflector_from_encoding(encoding)]

\* impl Component for Reflector: forward and backward.
Reflector_forward(self, letter) == self.wiring[letter]
Reflector_backward(self, letter) == letter

(***************************************************************************)
(* components/plugboard.rs                                                 *)
(***************************************************************************)
identity_wiring == [i \in Wire |-> i]

\* `byte - 97` on u8: a debug build panics when it overflows, a release
\* build wraps.  -1 stands for the panic.
u8_sub_97(byte, build) ==
    IF byte >= 97 THEN byte - 97
    ELSE IF build = "debug" THEN -1
    ELSE (byte + U8 - 97) % U8

\* The loop of Plugboard::new writing wiring[c1] = c2 without wiring[c2] = c1.
RECURSIVE Plugboard_connect_one_way(_, _, _, _)
Plugboard_connect_one_way(wiring, seen, connections, build) ==
    IF connections = << >> THEN [res |-> "Ok", value |-> [wiring |-> wiring]]
    ELSE
      LET byte_slice == as_bytes(Head(connections))
      IN  IF Len(byte_slice) # 2 THEN [res |-> "Err", kind |-> "pair"]
          ELSE
            LET c1 == u8_sub_97(byte_slice[1], build)
                c2 == u8_sub_97(byte_slice[2], build)
            IN  IF c1 = -1 \/ c2 = -1 THEN [res |-> "Panic", kind |-> "overflow"]
                ELSE IF c1 \in seen \/ c2 \in seen THEN [res |-> "Err", kind |-> "duplicate"]
                ELSE IF c1 \notin Wire \/ c2 \notin Wire THEN [res |-> "Panic", kind |-> "index"]
                ELSE Plugboard_connect_one_way([wiring EXCEPT ![c1] = c2],
                                               seen \cup {c1, c2}, Tail(connections), build)

\* The loop of Plugboard::new over the connections that remain.
RECURSIVE Plugboard_connect(_, _, _, _)
Plugboard_connect(wiring, seen, connections, build) ==
    IF connections = << >> THEN [res |-> "Ok", value |-> [wiring |-> wiring]]
    ELSE
      LET byte_slice == as_bytes(Head(connections))
      IN  IF Len(byte_slice) # 2 THEN [res |-> "Err", kind |-> "pair"]
          ELSE
            LET c1 == u8_sub_97(byte_slice[1], build)
                c2 == u8_sub_97(byte_slice[2], build)
            IN  IF c1 = -1 \/ c2 = -1 THEN [res |-> "Panic", kind |-> "overflow"]
                ELSE IF c1 \in seen \/ c2 \in seen THEN [res |-> "Err", kind |-> "duplicate"]
                ELSE IF c1 \notin Wire \/ c2 \notin Wire THEN [res |-> "Panic", kind |-> "index"]
                ELSE Plugboard_connect([[wiring EXCEPT ![c1] = c2] EXCEPT ![c2] = c1],
                                       seen \cup {c1, c2}, Tail(connections), build)

\* Plugboard::new.
Plugboard_new(connections, build) ==
    Plugboard_connect(identity_wiring, {}, connections, build)

\* Plugboard::backward leaving the letter as it is.
Plugboard_backward_unplugged(self, letter) == letter

\* impl Component for Plugboard: forward and backward.
Plugboard_forward(self, letter) == self.wiring[letter]
Plugboard_backward(self, letter) == self.wiring[letter]

(***************************************************************************)
(* lib.rs: struct Enigma                                                   *)
(***************************************************************************)
\* The length check of Enigma::new refusing only an empty list of rotors.
Enigma_new_refuses_empty(rotor_names, ring_settings, rotor_positions) ==
    \/ Len(rotor_names) # Len(ring_settings)
    \/ Len(rotor_names) # Len(rotor_positions)
    \/ Len(rotor_names) < 1

\* The length check that opens Enigma::new: TRUE iff the call is refused.
Enigma_new_refuses(rotor_names, ring_settings, rotor_positions) ==
    \/ Len(rotor_names) # Len(ring_settings)
    \/ Len(rotor_names) # Len(rotor_positions)
    \/ Len(rotor_names) <= 1

\* Enigma::new.  The rotors are pushed from the last name to the first, so
\* vector element 0 is the last-supplied (right-most) rotor.
Enigma_new(rotor_names, ring_settings, rotor_positions, reflector_type, plugboard_connections, build) ==
    IF Enigma_new_refuses(rotor_names, ring_settings, rotor_positions)
    THEN [res |-> "Err", kind |-> "count"]
    ELSE IF \E i \in 1 .. Len(rotor_names) : ~RotorName_try_from(rotor_names[i])
    THEN [res |-> "Err", kind |-> "rotor"]
    ELSE
      LET n == Len(rotor_names)
          rotors == [k \in 1 .. n |->
                       Rotor_new(rotor_names[n + 1 - k], rotor_positions[n + 1 - k],
                                 ring_settings[n + 1 - k])]
          reflector == Reflector_new(reflector_type)
          plugboard == Plugboard_new(plugboard_connections, build)
      IN  IF reflector.res # "Ok" THEN reflector
          ELSE IF plugboard.res # "Ok" THEN plugboard
          ELSE [res |-> "Ok",
                value |-> [rotors |-> rotors, reflector |-> reflector.value,
                           plugboard |-> plugboard.value]]

\* Enigma::rotate in which a middle rotor at its notch steps the left rotor
\* but not itself.
Enigma_rotate_no_double_step(rotors) ==
    LET n == Len(rotors)
        r1 == IF n > 1
              THEN IF Rotor_at_notch(rotors[2])
                   THEN IF n < 3 THEN [panic |-> TRUE, rotors |-> rotors]
                        ELSE [panic |-> FALSE,
                              rotors |-> [rotors EXCEPT ![3] = Rotor_turnover(rotors[3])]]
                   ELSE IF Rotor_at_notch(rotors[1])
                   THEN [panic |-> FALSE,
                         rotors |-> [rotors EXCEPT ![2] = Rotor_turnover(rotors[2])]]
                   ELSE [panic |-> FALSE, rotors |-> rotors]
              ELSE [panic |-> FALSE, rotors |-> rotors]
    IN  IF r1.panic \/ n < 1 THEN [panic |-> TRUE, rotors |-> r1.rotors]
        ELSE [panic |-> FALSE,
              rotors |-> [r1.rotors EXCEPT ![1] = Rotor_turnover(r1.rotors[1])]]

\* Enigma::rotate in which a middle rotor at its notch turns over every
\* rotor to its left, not only the third.
Enigma_rotate_every_rotor(rotors) ==
    LET n == Len(rotors)
        r1 == IF n > 1
              THEN IF Rotor_at_notch(rotors[2])
                   THEN IF n < 3
                        THEN [panic |-> TRUE,
                              rotors |-> [rotors EXCEPT ![2] = Rotor_turnover(rotors[2])]]
                        ELSE [panic |-> FALSE,
                              rotors |-> [k \in 1 .. n |->
                                            IF k >= 2 THEN Rotor_turnover(rotors[k])
                                            ELSE rotors[k]]]
                   ELSE IF Rotor_at_notch(rotors[1])
                   THEN [panic |-> FALSE,
                         rotors |-> [rotors EXCEPT ![2] = Rotor_turnover(rotors[2])]]
                   ELSE [panic |-> FALSE, rotors |-> rotors]
              ELSE [panic |-> FALSE, rotors |-> rotors]
    IN  IF r1.panic \/ n < 1 THEN [panic |-> TRUE, rotors |-> r1.rotors]
        ELSE [panic |-> FALSE,
              rotors |-> [r1.rotors EXCEPT ![1] = Rotor_turnover(r1.rotors[1])]]

\* Enigma::rotate on the rotor vector.  Indexing past the end of the vector
\* panics; the turnovers made before the panic stay.
Enigma_rotate(rotors) ==
    LET n == Len(rotors)
        r1 == IF n > 1
              THEN IF Rotor_at_notch(rotors[2])
                   THEN LET t == [rotors EXCEPT ![2] = Rotor_turnover(rotors[2])]
                        IN  IF n < 3 THEN [panic |-> TRUE, rotors |-> t]
                            ELSE [panic |-> FALSE,
                                  rotors |-> [t EXCEPT ![3] = Rotor_turnover(t[3])]]
                   ELSE IF Rotor_at_notch(rotors[1])
                   THEN [panic |-> FALSE,
                         rotors |-> [rotors EXCEPT ![2] = Rotor_turnover(rotors[2])]]
                   ELSE [panic |-> FALSE, rotors |-> rotors]
              ELSE [panic |-> FALSE, rotors |-> rotors]
    IN  IF r1.panic \/ n < 1 THEN [panic |-> TRUE, rotors |-> r1.rotors]
        ELSE [panic |-> FALSE,
              rotors |-> [r1.rotors EXCEPT ![1] = Rotor_turnover(r1.rotors[1])]]

\* The rotors forward, last vector element (the left-most rotor) first.
RECURSIVE Enigma_rotors_forward_left_first(_, _, _)
Enigma_rotors_forward_left_first(rotors, k, res) ==
    IF k > Len(rotors) THEN res
    ELSE Enigma_rotors_forward_left_first(
             rotors, k + 1, Rotor_forward(rotors[Len(rotors) + 1 - k], res))

\* The rotors forward, vector element 0 first.
RECURSIVE Enigma_rotors_forward(_, _, _)
Enigma_rotors_forward(rotors, k, res) ==
    IF k > Len(rotors) THEN res
    ELSE Enigma_rotors_forward(rotors, k + 1, Rotor_forward(rotors[k], res))

\* The rotors backward, last vector element first.
RECURSIVE Enigma_rotors_backward(_, _, _)
Enigma_rotors_backward(rotors, k, res) ==
    IF k < 1 THEN res
    ELSE Enigma_rotors_backward(rotors, k - 1, Rotor_backward(rotors[k], res))

\* The signal path of Enigma::encrypt_single, after the rotation.
Enigma_signal(self, letter) ==
    LET a == Plugboard_forward(self.plugboard, letter)
        b == Enigma_rotors_forward(self.rotors, 1, a)
        c == Reflector_forward(self.reflector, b)
        d == Reflector_backward(self.reflector, c)
        e == Enigma_rotors_backward(self.rotors, Len(self.rotors), d)
    IN  Plugboard_backward(self.plugboard, e)

\* Enigma::encrypt_single.
Enigma_encrypt_single(self, letter) ==
    LET rot == Enigma_rotate(self.rotors)
        turned == [self EXCEPT !.rotors = rot.rotors]
    IN  IF rot.panic THEN [panic |-> TRUE, self |-> turned, res |-> 0]
        ELSE [panic |-> FALSE, self |-> turned, res |-> Enigma_signal(turned, letter)]

\* The positions of a rotor vector.
Positions(rotors) == [k \in 1 .. Len(rotors) |-> rotors[k].position]

\* The closure of Enigma::encrypt rotating the rotors for every byte, letter
\* or not.
RECURSIVE Enigma_encrypt_bytes_always_rotating(_, _, _, _, _)
Enigma_encrypt_bytes_always_rotating(self, bytes, k, out, keys) ==
    IF k > Len(bytes) THEN [panic |-> FALSE, self |-> self, out |-> out, keys |-> keys]
    ELSE LET r == Enigma_encrypt_single(self, IF bytes[k] >= 97 /\ bytes[k] <= 122
                                              THEN bytes[k] - 97 ELSE 0)
         IN  IF r.panic THEN [panic |-> TRUE, self |-> r.self, out |-> out, keys |-> keys]
             ELSE Enigma_encrypt_bytes_always_rotating(
                      r.self, bytes, k + 1,
                      Append(out, IF bytes[k] >= 97 /\ bytes[k] <= 122
                                  THEN r.res + 97 ELSE bytes[k]),
                      Append(keys, Positions(r.self.rotors)))

\* The closure Enigma::encrypt maps over the bytes, from byte k on: out is
\* the text built so far, keys the rotor positions after each rotation.
RECURSIVE Enigma_encrypt_bytes(_, _, _, _, _)
Enigma_encrypt_bytes(self, bytes, k, out, keys) ==
    IF k > Len(bytes) THEN [panic |-> FALSE, self |-> self, out |-> out, keys |-> keys]
    ELSE IF bytes[k] >= 97 /\ bytes[k] <= 122
    THEN LET r == Enigma_encrypt_single(self, bytes[k] - 97)
         IN  IF r.panic THEN [panic |-> TRUE, self |-> r.self, out |-> out, keys |-> keys]
             ELSE Enigma_encrypt_bytes(r.self, bytes, k + 1, Append(out, r.res + 97),
                                       Append(keys, Positions(r.self.rotors)))
    ELSE Enigma_encrypt_bytes(self, bytes, k + 1, Append(out, bytes[k]), keys)

\* Enigma::encrypt starting every call with the rotors at position 0.
Enigma_encrypt_resetting(self, message) ==
    Enigma_encrypt_bytes(
        [self EXCEPT !.rotors = [k \in 1 .. Len(self.rotors) |->
                                   [self.rotors[k] EXCEPT !.position = 0]]],
        as_bytes(to_lowercase(message)), 1, << >>, << >>)

\* Enigma::encrypt.
Enigma_encrypt(self, message) ==
    Enigma_encrypt_bytes(self, as_bytes(to_lowercase(message)), 1, << >>, << >>)

(***************************************************************************)
(* components.rs and machine.rs: struct Machine.  The crate root these     *)
(* two files import from (ALPHABET_SIZE, char_to_wire, wire_to_char,       *)
(* identity_wiring, encoding_to_wiring) and the from_name constructors are *)
(* not among the sources; they are modelled from the specification.        *)
(***************************************************************************)
ALPHABET_SIZE == 26

MWire == 0 .. (ALPHABET_SIZE - 1)

\* char_to_wire: the symbol of a letter, whatever its case.
char_to_wire(c) == to_lowercase_char(c) - 97

\* wire_to_char: the upper-case letter of a symbol.
wire_to_char(l) == l + 65

\* identity_wiring of the crate root.
M_identity_wiring == [i \in MWire |-> i]

\* encoding_to_wiring of the crate root, on 26 letters.
M_encoding_to_wiring(encoding) == [i \in MWire |-> char_to_wire(encoding[i + 1])]

\* char::is_ascii_alphabetic.
is_ascii_alphabetic(c) == (c >= 65 /\ c <= 90) \/ (c >= 97 /\ c <= 122)

\* char::is_whitespace, on the code points the model uses.
is_whitespace(c) == c \in {9, 10, 13, 32}

\* Rust's `%` on isize: the remainder takes the sign of the dividend.
rust_rem(a, n) == IF a >= 0 THEN a % n ELSE 0 - ((0 - a) % n)

\* The loop of Rotor::new (components.rs) that fills backward_wiring, from
\* index i on.
RECURSIVE MRotor_backward_wiring_from(_, _, _)
MRotor_backward_wiring_from(forward_wiring, i, backward_wiring) ==
    IF i >= ALPHABET_SIZE THEN backward_wiring
    ELSE MRotor_backward_wiring_from(forward_wiring, i + 1,
                                     [backward_wiring EXCEPT ![forward_wiring[i]] = i])

\* components.rs, Rotor::new.
MRotor_new(encoding, position, ring_setting, notch_position) ==
    LET forward_wiring == M_encoding_to_wiring(encoding)
    IN  [forward_wiring  |-> forward_wiring,
         backward_wiring |-> MRotor_backward_wiring_from(forward_wiring, 0,
                                                         [w \in MWire |-> 0]),
         position        |-> position,
         ring_setting    |-> ring_setting,
         notch_position  |-> notch_position]

\* The notches the rotor_cons! constructors of components.rs pass.
MRotorNotches(name) ==
    CASE name = "I"    -> <<16>>
      [] name = "II"   -> <<4>>
      [] name = "III"  -> <<21>>
      [] name = "IV"   -> <<9>>
      [] name = "V"    -> <<25>>
      [] name \in {"VI", "VII", "VIII"} -> <<12, 25>>

\* Rotor::from_name: the rotor_cons! constructor of a recognised name.
MRotor_from_name(name, ring_setting, position) ==
    MRotor_new(RotorEncoding(name), position, ring_setting, MRotorNotches(name))

\* components.rs, Rotor::at_notch.
MRotor_at_notch(self) ==
    \E k \in 1 .. Len(self.notch_position) : self.position = self.notch_position[k]

\* components.rs, Rotor::turnover.
MRotor_turnover(self) == [self EXCEPT !.position = (self.position + 1) % ALPHABET_SIZE]

\* components.rs, Rotor::encipher.  -1 stands for the panic of an index
\* outside the array, and for a result outside 0..25: a negative remainder
\* cast to u8, on which the next component panics (debug_assert in a debug
\* build, the index into its wiring otherwise).
MRotor_encipher(self, wiring, letter) ==
    IF letter \notin MWire THEN -1
    ELSE
      LET shift == self.position - self.ring_setting
          index == rust_rem(letter + shift + 26, 26)
      IN  IF index \notin MWire THEN -1
          ELSE LET res == rust_rem(wiring[index] - shift + 26, 26)
               IN  IF res \notin MWire THEN -1 ELSE res

MRotor_forward(self, letter) == MRotor_encipher(self, self.forward_wiring, letter)
MRotor_backward(self, letter) == MRotor_encipher(self, self.backward_wiring, letter)

\* str::split_whitespace.
RECURSIVE split_whitespace(_, _)
split_whitespace(s, word) ==
    IF s = << >> THEN (IF word = << >> THEN << >> ELSE << word >>)
    ELSE IF is_whitespace(Head(s))
    THEN (IF word = << >> THEN << >> ELSE << word >>) \o split_whitespace(Tail(s), << >>)
    ELSE split_whitespace(Tail(s), Append(word, Head(s)))

\* The loop of Plugboard::from_connections over the pairs that remain.
RECURSIVE MPlugboard_connect(_, _, _)
MPlugboard_connect(wiring, seen, pairs) ==
    IF pairs = << >> THEN [res |-> "Ok", value |-> [wiring |-> wiring]]
    ELSE
      LET char_pair == Head(pairs)
      IN  IF Len(char_pair) < 2 THEN MPlugboard_connect(wiring, seen, Tail(pairs))
          ELSE
            LET char1 == char_to_wire(char_pair[1])
                char2 == char_to_wire(char_pair[2])
            IN  IF char1 \in seen \/ char2 \in seen \cup {char1}
                THEN [res |-> "Panic", kind |-> "Invalid connections"]
                ELSE IF char1 \notin MWire \/ char2 \notin MWire
                THEN [res |-> "Panic", kind |-> "index"]
                ELSE MPlugboard_connect([[wiring EXCEPT ![char1] = char2] EXCEPT ![char2] = char1],
                                        seen \cup {char1, char2}, Tail(pairs))

\* components.rs, Plugboard::from_connections.
MPlugboard_from_connections(connections) ==
    MPlugboard_connect(M_identity_wiring, {}, split_whitespace(connections, << >>))

\* components.rs, Plugboard::forward.
MPlugboard_forward(self, letter) == IF letter \in MWire THEN self.wiring[letter] ELSE -1

\* components.rs, Reflector::a, b and c, by name.
MReflector_from_name(name) ==
    [wiring |-> M_encoding_to_wiring(
                    CASE name = <<65>> -> ReflectorEncoding(<<97>>)
                      [] name = <<66>> -> ReflectorEncoding(<<98>>)
                      [] name = <<67>> -> ReflectorEncoding(<<99>>))]

\* components.rs, Reflector::forward.
MReflector_forward(self, letter) == IF letter \in MWire THEN self.wiring[letter] ELSE -1

\* machine.rs, Machine::new.  An unrecognised rotor or reflector name has
\* no machine to return.
Machine_new(rotors, ring_settings, rotor_positions, reflector_type, plugboard_connections) ==
    IF \E i \in 1 .. 3 : rotors[i] \notin RotorNames
    THEN [res |-> "Panic", kind |-> "rotor"]
    ELSE IF reflector_type \notin {<<65>>, <<66>>, <<67>>}
    THEN [res |-> "Panic", kind |-> "reflector"]
    ELSE
      LET plugboard == MPlugboard_from_connections(plugboard_connections)
      IN  IF plugboard.res # "Ok" THEN plugboard
          ELSE [res |-> "Ok",
                value |-> [left_rotor   |-> MRotor_from_name(rotors[1], ring_settings[1], rotor_positions[1]),
                           middle_rotor |-> MRotor_from_name(rotors[2], ring_settings[2], rotor_positions[2]),
                           right_rotor  |-> MRotor_from_name(rotors[3], ring_settings[3], rotor_positions[3]),
                           reflector    |-> MReflector_from_name(reflector_type),
                           plugboard    |-> plugboard.value]]

\* Machine::rotate turning the right rotor before it tests the notches.
Machine_rotate_right_first(self) ==
    LET first == [self EXCEPT !.right_rotor = MRotor_turnover(self.right_rotor)]
    IN  IF MRotor_at_notch(first.middle_rotor)
        THEN [first EXCEPT !.middle_rotor = MRotor_turnover(first.middle_rotor),
                           !.left_rotor = MRotor_turnover(first.left_rotor)]
        ELSE IF MRotor_at_notch(first.right_rotor)
        THEN [first EXCEPT !.middle_rotor = MRotor_turnover(first.middle_rotor)]
        ELSE first

\* machine.rs, Machine::rotate.
Machine_rotate(self) ==
    LET stepped ==
          IF MRotor_at_notch(self.middle_rotor)
          THEN [self EXCEPT !.middle_rotor = MRotor_turnover(self.middle_rotor),
                            !.left_rotor = MRotor_turnover(self.left_rotor)]
          ELSE IF MRotor_at_notch(self.right_rotor)
          THEN [self EXCEPT !.middle_rotor = MRotor_turnover(self.middle_rotor)]
          ELSE self
    IN  [stepped EXCEPT !.right_rotor = MRotor_turnover(stepped.right_rotor)]

\* The signal path of the closure in Machine::encrypt, after the rotation.
Machine_signal(self, c) ==
    LET l0 == char_to_wire(c)
        l1 == MPlugboard_forward(self.plugboard, l0)
        l2 == MRotor_forward(self.right_rotor, l1)
        l3 == MRotor_forward(self.middle_rotor, l2)
        l4 == MRotor_forward(self.left_rotor, l3)
        l5 == MReflector_forward(self.reflector, l4)
        l6 == MRotor_backward(self.left_rotor, l5)
        l7 == MRotor_backward(self.middle_rotor, l6)
        l8 == MRotor_backward(self.right_rotor, l7)
    IN  MPlugboard_forward(self.plugboard, l8)

\* The positions of a Machine, in the order of Enigma's rotor vector:
\* right, middle, left.
MPositions(self) ==
    << self.right_rotor.position, self.middle_rotor.position, self.left_rotor.position >>

\* The closure Machine::encrypt maps over the characters, from character k on.
RECURSIVE Machine_encrypt_chars(_, _, _, _, _)
Machine_encrypt_chars(self, message, k, out, keys) ==
    IF k > Len(message) THEN [panic |-> FALSE, self |-> self, out |-> out, keys |-> keys]
    ELSE IF ~is_ascii_alphabetic(message[k])
    THEN Machine_encrypt_chars(self, message, k + 1, out, keys)
    ELSE LET turned == Machine_rotate(self)
             l == Machine_signal(turned, message[k])
         IN  IF l = -1 THEN [panic |-> TRUE, self |-> turned, out |-> out, keys |-> keys]
             ELSE Machine_encrypt_chars(turned, message, k + 1, Append(out, wire_to_char(l)),
                                        Append(keys, MPositions(turned)))

\* machine.rs, Machine::encrypt.
Machine_encrypt(self, message) == Machine_encrypt_chars(self, message, 1, << >>, << >>)

(***************************************************************************)
(* The state: one run builds a pair of machines of one struct from the     *)
(* same arguments, then calls encrypt on the first and feeds every output  *)
(* to the second.                                                          *)
(***************************************************************************)
VARIABLES
    prog,       \* "none", "Enigma" or "Machine": the struct the run builds
    args,       \* the arguments given to the constructor
    made,       \* what the constructor returned: res is None, Ok, Err or Panic
    machine1,   \* the first machine
    machine2,   \* the second machine, built from the same arguments
    fault,      \* "none", or the encrypt call that panicked
    msgs,       \* the messages passed to machine1.encrypt, in order
    outs,       \* what machine1.encrypt returned for each
    backs,      \* what machine2.encrypt returned for each of outs
    keylog,     \* machine1's rotor positions: as built, then after every rotation
    part,       \* a component built on its own: a rotor, a reflector or a plugboard
    probe,      \* the last symbol passed through the component, and what came out
    walk        \* three rotors stepped on their own, and the count of their steps

vars == << prog, args, made, machine1, machine2, fault, msgs, outs, backs, keylog,
           part, probe, walk >>

\* The variables of a run of machines, of a component, and of a walk.
machine_vars == << prog, args, made, machine1, machine2, fault, msgs, outs, backs, keylog >>
part_vars == << part, probe >>

NoPart == [kind |-> "None"]
NoProbe == [kind |-> "None"]
NoWalk == [kind |-> "None"]

NoMachine == [rotors |-> << >>]

\* The characters of the messages: a, Z, space, the pound sign, e acute.
Chars == {97, 90, 32, 163, 233}

\* The texts of at most n characters.
Texts(n) == UNION {[1 .. k -> Chars] : k \in 0 .. n}

\* The test vectors of lib.rs and machine.rs: AAAAA, HELLOXWORLD, and the
\* same in lower case.
AAAAA == <<65,65,65,65,65>>
HELLOXWORLD == <<72,69,76,76,79,88,87,79,82,76,68>>
Vectors == {AAAAA, HELLOXWORLD, to_lowercase(AAAAA), to_lowercase(HELLOXWORLD)}

\* Arguments of Enigma::new.
EnigmaNames == { << >>, <<"I">>, <<"I", "II">>, <<"I", "II", "III">>,
                 <<"VI", "VII", "VIII">>, <<"I", "IX", "III">>, <<"IV", "I", "II", "III">> }
EnigmaRings == { << >>, <<0>>, <<0, 0>>, <<1, 1, 1>>, <<5, 7, 45>>, <<0, 0, 0, 0>> }
EnigmaPositions == { << >>, <<3>>, <<16, 0>>, <<15, 4>>, <<0, 0, 0>>, <<0, 3, 21>>,
                     <<37, 11, 24>>, <<7, 0, 3, 21>>, <<7, 16, 3, 21>> }
\* b, I, x, C
EnigmaReflectors == { <<98>>, <<73>>, <<120>>, <<67>> }
\* none; az gk; AB; AB AC; ab ac; ab aB; a; abc; a1; e acute
EnigmaPlugs == { << >>, << <<97,122>>, <<103,107>> >>, << <<65,66>> >>,
                 << <<65,66>>, <<65,67>> >>, << <<97,98>>, <<97,99>> >>,
                 << <<97,98>>, <<97,66>> >>, << <<97>> >>, << <<97,98,99>> >>,
                 << <<97,49>> >>, << <<233>> >> }
Builds == {"debug", "release"}

\* Arguments of Machine::new.
MachineNames == { <<"I", "II", "III">>, <<"VI", "VII", "VIII">>, <<"I", "IX", "III">> }
MachineRings == { <<1, 1, 1>> }
MachinePositions == { <<0, 0, 0>>, <<0, 3, 21>>, <<11, 11, 24>> }
\* B, X, A, C
MachineReflectors == { <<66>>, <<88>>, <<65>>, <<67>> }
\* none; AZ DE; AB AC; A; ABC DE
MachinePlugs == { << >>, <<65,90,32,68,69>>, <<65,66,32,65,67>>, <<65>>,
                  <<65,66,67,32,68,69>> }

Init ==
    /\ prog = "none"
    /\ args = << >>
    /\ made = [res |-> "None"]
    /\ machine1 = NoMachine
    /\ machine2 = NoMachine
    /\ fault = "none"
    /\ msgs = << >>
    /\ outs = << >>
    /\ backs = << >>
    /\ keylog = << >>
    /\ part = NoPart
    /\ probe = NoProbe
    /\ walk = NoWalk

\* Two calls of Enigma::new with the same arguments.
EnigmaNew ==
    /\ prog = "none"
    /\ \E names \in EnigmaNames, rings \in EnigmaRings, poss \in EnigmaPositions,
          refl \in EnigmaReflectors, plugs \in EnigmaPlugs, build \in Builds :
         LET r == Enigma_new(names, rings, poss, refl, plugs, build)
         IN  /\ prog' = "Enigma"
             /\ args' = [rotor_names |-> names, ring_settings |-> rings,
                         rotor_positions |-> poss, reflector_type |-> refl,
                         plugboard_connections |-> plugs]
             /\ made' = [res |-> r.res, kind |-> IF r.res = "Ok" THEN "" ELSE r.kind]
             /\ machine1' = IF r.res = "Ok" THEN r.value ELSE NoMachine
             /\ machine2' = IF r.res = "Ok" THEN r.value ELSE NoMachine
             /\ keylog' = IF r.res = "Ok" THEN << Positions(r.value.rotors) >> ELSE << >>
    /\ UNCHANGED << fault, msgs, outs, backs, part, probe, walk >>

\* Two calls of Machine::new with the same arguments.
MachineNew ==
    /\ prog = "none"
    /\ \E names \in MachineNames, rings \in MachineRings, poss \in MachinePositions,
          refl \in MachineReflectors, plugs \in MachinePlugs :
         LET r == Machine_new(names, rings, poss, refl, plugs)
         IN  /\ prog' = "Machine"
             /\ args' = [rotor_names |-> names, ring_settings |-> rings,
                         rotor_positions |-> poss, reflector_type |-> refl,
                         plugboard_connections |-> plugs]
             /\ made' = [res |-> r.res, kind |-> IF r.res = "Ok" THEN "" ELSE r.kind]
             /\ machine1' = IF r.res = "Ok" THEN r.value ELSE NoMachine
             /\ machine2' = IF r.res = "Ok" THEN r.value ELSE NoMachine
             /\ keylog' = IF r.res = "Ok" THEN << MPositions(r.value) >> ELSE << >>
    /\ UNCHANGED << fault, msgs, outs, backs, part, probe, walk >>

\* The number of characters passed to machine1 so far.
RECURSIVE TotalLen(_)
TotalLen(ss) == IF ss = << >> THEN 0 ELSE Len(Head(ss)) + TotalLen(Tail(ss))

\* The messages a run may pass next: short texts, and on a machine not used
\* yet the test vectors.
NextMessages ==
    Texts(MaxInput - TotalLen(msgs)) \cup (IF msgs = << >> THEN Vectors ELSE {})

\* machine1.encrypt(message), then machine2.encrypt of what it returned.
Called(r1, r2, message) ==
    /\ msgs' = Append(msgs, message)
    /\ keylog' = keylog \o r1.keys
    /\ machine1' = r1.self
    /\ IF r1.panic
       THEN /\ fault' = "machine1.encrypt"
            /\ UNCHANGED << machine2, outs, backs >>
       ELSE /\ outs' = Append(outs, r1.out)
            /\ machine2' = r2.self
            /\ IF r2.panic
               THEN fault' = "machine2.encrypt" /\ UNCHANGED backs
               ELSE fault' = "none" /\ backs' = Append(backs, r2.out)
    /\ UNCHANGED << prog, args, made, part, probe, walk >>

EnigmaEncrypt ==
    /\ prog = "Enigma" /\ made.res = "Ok" /\ fault = "none"
    /\ Len(msgs) < MaxCalls
    /\ \E message \in NextMessages :
         LET r1 == Enigma_encrypt(machine1, message)
             r2 == Enigma_encrypt(machine2, r1.out)
         IN  Called(r1, r2, message)

MachineEncrypt ==
    /\ prog = "Machine" /\ made.res = "Ok" /\ fault = "none"
    /\ Len(msgs) < MaxCalls
    /\ \E message \in NextMessages :
         LET r1 == Machine_encrypt(machine1, message)
             r2 == Machine_encrypt(machine2, r1.out)
         IN  Called(r1, r2, message)

Next == EnigmaNew \/ MachineNew \/ EnigmaEncrypt \/ MachineEncrypt

Spec == Init /\ [][Next]_vars

(***************************************************************************)
(* A component on its own: Rotor::new, Reflector::new or Plugboard::new is *)
(* called once, the rotor is turned over, and symbols are passed through   *)
(* the component.  The family says which generation of the code is used:   *)
(* components/{rotor,reflector,plugboard}.rs or components.rs.             *)
(***************************************************************************)
Families == {"rotor.rs", "components.rs"}

\* Positions and ring settings given to Rotor::new: all of 0..25, the 37
\* and 45 of the test rotor_constructs, and 42 (16 modulo 26, the notch of
\* rotor I).
RawValues == (0 .. 25) \cup {37, 42, 45}

\* Reflector types given to Reflector::new: a, b, c, i, B, I, x.
ReflectorTypes == { <<97>>, <<98>>, <<99>>, <<105>>, <<66>>, <<73>>, <<120>> }

\* Plugboard pairs given to Plugboard::new: those of EnigmaPlugs, and
\* aa; ab cd ef.
PlugLists == EnigmaPlugs \cup { << <<97,97>> >>, << <<97,98>>, <<99,100>>, <<101,102>> >> }

\* Rotor::new of either family; components.rs through the rotor_cons!
\* constructor of the name.
Rotor_cons(family, name, position, ring_setting) ==
    IF family = "rotor.rs" THEN Rotor_new(name, position, ring_setting)
    ELSE MRotor_new(RotorEncoding(name), position, ring_setting, MRotorNotches(name))

Part_turnover(family, rotor) ==
    IF family = "rotor.rs" THEN Rotor_turnover(rotor) ELSE MRotor_turnover(rotor)

Part_at_notch(family, rotor) ==
    IF family = "rotor.rs" THEN Rotor_at_notch(rotor) ELSE MRotor_at_notch(rotor)

Part_forward(family, rotor, letter) ==
    IF family = "rotor.rs" THEN Rotor_forward(rotor, letter) ELSE MRotor_forward(rotor, letter)

Part_backward(family, rotor, letter) ==
    IF family = "rotor.rs" THEN Rotor_backward(rotor, letter) ELSE MRotor_backward(rotor, letter)

\* The forward table of a rotor.
Part_wiring(family, rotor) ==
    IF family = "rotor.rs" THEN rotor.wiring ELSE rotor.forward_wiring

\* Rotor::new(name, position, ring_setting), and next to it the rotor of the
\* same name built with the two numbers reduced modulo 26.
RotorNew ==
    /\ prog = "none" /\ part = NoPart /\ walk = NoWalk
    /\ \E family \in Families, name \in RotorNames,
          position \in RawValues, ring_setting \in RawValues :
         part' = [kind |-> "Rotor", family |-> family, name |-> name,
                  position |-> position, ring_setting |-> ring_setting, turns |-> 0,
                  rotor |-> Rotor_cons(family, name, position, ring_setting),
                  twin |-> Rotor_cons(family, name, position % 26, ring_setting % 26)]
    /\ UNCHANGED << probe, walk >>
    /\ UNCHANGED machine_vars

\* Rotor::turnover, on the rotor and on its twin.
RotorTurnover ==
    /\ part.kind = "Rotor"
    /\ part.turns < MaxTurns
    /\ part' = [part EXCEPT !.rotor = Part_turnover(part.family, part.rotor),
                            !.twin = Part_turnover(part.family, part.twin),
                            !.turns = part.turns + 1]
    /\ probe' = NoProbe
    /\ UNCHANGED walk
    /\ UNCHANGED machine_vars

\* forward(x), backward(x) and backward(forward(x)) on the rotor, forward(x)
\* and backward(x) on its twin, for one symbol x per state of the rotor.  A symbol outside 0..25 that comes out of
\* forward makes backward panic (-1).
RotorPass ==
    /\ part.kind = "Rotor" /\ probe = NoProbe
    /\ \E x \in Wire :
         LET y == Part_forward(part.family, part.rotor, x)
         IN  probe' = [kind |-> "Rotor", x |-> x,
                       forward |-> y,
                       backward |-> Part_backward(part.family, part.rotor, x),
                       round |-> IF y \in Wire THEN Part_backward(part.family, part.rotor, y)
                                 ELSE -1,
                       twin_forward |-> Part_forward(part.family, part.twin, x),
                       twin_backward |-> Part_backward(part.family, part.twin, x)]
    /\ UNCHANGED << part, walk >>
    /\ UNCHANGED machine_vars

\* Reflector::new(reflector_type) (reflector.rs), or Reflector::a, b or c
\* (components.rs).
ReflectorNew ==
    /\ prog = "none" /\ part = NoPart /\ walk = NoWalk
    /\ \/ \E reflector_type \in ReflectorTypes :
            LET r == Reflector_new(reflector_type)
            IN  part' = [kind |-> "Reflector", family |-> "rotor.rs", res |-> r.res,
                         given |-> reflector_type,
                         table |-> IF r.res = "Ok" THEN r.value.wiring ELSE << >>]
       \/ \E name \in {<<65>>, <<66>>, <<67>>} :
            part' = [kind |-> "Reflector", family |-> "components.rs", res |-> "Ok",
                     given |-> name, table |-> MReflector_from_name(name).wiring]
    /\ UNCHANGED << probe, walk >>
    /\ UNCHANGED machine_vars

\* Plugboard::new(connections) (plugboard.rs), or
\* Plugboard::from_connections(connections) (components.rs).
PlugboardNew ==
    /\ prog = "none" /\ part = NoPart /\ walk = NoWalk
    /\ \/ \E connections \in PlugLists, build \in Builds :
            LET r == Plugboard_new(connections, build)
            IN  part' = [kind |-> "Plugboard", family |-> "rotor.rs", res |-> r.res,
                         given |-> connections,
                         table |-> IF r.res = "Ok" THEN r.value.wiring ELSE << >>]
       \/ \E connections \in MachinePlugs :
            LET r == MPlugboard_from_connections(connections)
            IN  part' = [kind |-> "Plugboard", family |-> "components.rs", res |-> r.res,
                         given |-> connections,
                         table |-> IF r.res = "Ok" THEN r.value.wiring ELSE << >>]
    /\ UNCHANGED << probe, walk >>
    /\ UNCHANGED machine_vars

\* forward(x) and forward(forward(x)) on a reflector or a plugboard.
TablePass ==
    /\ part.kind \in {"Reflector", "Plugboard"} /\ part.res = "Ok" /\ probe = NoProbe
    /\ \E x \in Wire :
         probe' = [kind |-> part.kind, x |-> x, forward |-> part.table[x],
                   twice |-> IF part.table[x] \in Wire THEN part.table[part.table[x]] ELSE -1]
    /\ UNCHANGED << part, walk >>
    /\ UNCHANGED machine_vars

ComponentNext ==
    RotorNew \/ RotorTurnover \/ RotorPass \/ ReflectorNew \/ PlugboardNew \/ TablePass

ComponentSpec == Init /\ [][ComponentNext]_vars

(***************************************************************************)
(* A walk: a three-rotor machine of either family, built at chosen rotor   *)
(* positions, is fed one letter after another without end.                 *)
(***************************************************************************)
\* The rotors (left, middle, right) and the positions (left, middle, right)
\* a walk starts from.  With rotors I, II, III the middle notch is 4 and
\* the right notch is 21: <<0, 4, 21>> has both at their notches.
WalkFamilies == {"lib.rs", "machine.rs"}
WalkNames == { <<"I", "II", "III">> }
WalkStarts == { <<0, 0, 0>>, <<0, 4, 21>> }

\* The positions (left, middle, right) of the rotors of a walk's machine.
WalkPositions(family, machine) ==
    IF family = "lib.rs"
    THEN << machine.rotors[3].position, machine.rotors[2].position,
            machine.rotors[1].position >>
    ELSE << machine.left_rotor.position, machine.middle_rotor.position,
            machine.right_rotor.position >>

\* Enigma::new or Machine::new with three single-notch rotors, ring
\* settings 0, reflector B and no plugs.
WalkNew ==
    /\ prog = "none" /\ part = NoPart /\ walk = NoWalk
    /\ \E family \in WalkFamilies, names \in WalkNames, start \in WalkStarts :
         LET r == IF family = "lib.rs"
                  THEN Enigma_new(names, <<0, 0, 0>>, start, <<98>>, << >>, "release")
                  ELSE Machine_new(names, <<0, 0, 0>>, start, <<66>>, << >>)
         IN  /\ r.res = "Ok"
             /\ walk' = [kind |-> "Walk", family |-> family, names |-> names,
                         start |-> start, machine |-> r.value, fault |-> FALSE,
                         letters |-> 0, after2 |-> << >>]
    /\ UNCHANGED machine_vars
    /\ UNCHANGED part_vars

\* One letter of a message: the call of rotate that encrypt makes for it.
\* The letter's way through the machine changes nothing and is left out.
\* after2 keeps the rotor positions after the second letter.
WalkLetter ==
    /\ walk.kind = "Walk" /\ ~walk.fault
    /\ LET r == IF walk.family = "lib.rs"
                THEN Enigma_rotate(walk.machine.rotors)
                ELSE [panic |-> FALSE, self |-> Machine_rotate(walk.machine)]
           machine == IF walk.family = "lib.rs"
                      THEN [walk.machine EXCEPT !.rotors = r.rotors]
                      ELSE r.self
           letters == IF walk.letters < MaxLetters THEN walk.letters + 1
                      ELSE MaxLetters
       IN  walk' = [walk EXCEPT
                      !.machine = machine,
                      !.fault = r.panic,
                      !.letters = letters,
                      !.after2 = IF letters = 2 /\ ~r.panic
                                 THEN WalkPositions(walk.family, machine)
                                 ELSE @]
    /\ UNCHANGED machine_vars
    /\ UNCHANGED part_vars

WalkNext == WalkNew \/ WalkLetter

\* The stream of letters does not end: a letter is always taken eventually.
WalkSpec == Init /\ [][WalkNext]_vars /\ WF_vars(WalkLetter)

(***************************************************************************)
(* Vocabulary of the properties.                                           *)
(***************************************************************************)
\* char::is_alphabetic, on the code points the model uses.
is_alphabetic(c) ==
    \/ is_ascii_alphabetic(c)
    \/ c \in {170, 181, 186, 8490}
    \/ (c >= 192 /\ c <= 255 /\ c \notin {215, 247})

AllAlphabetic(s) == \A i \in 1 .. Len(s) : is_alphabetic(s[i])
AllAsciiLetters(s) == \A i \in 1 .. Len(s) : is_ascii_alphabetic(s[i])
AllAscii(s) == \A i \in 1 .. Len(s) : s[i] < 128

\* A text with its ASCII letters in upper case.
to_ascii_uppercase(s) ==
    [i \in 1 .. Len(s) |-> IF s[i] >= 97 /\ s[i] <= 122 THEN s[i] - 32 ELSE s[i]]

\* The texts of a sequence of texts, joined.
RECURSIVE Concat(_)
Concat(ss) == IF ss = << >> THEN << >> ELSE Head(ss) \o Concat(Tail(ss))

\* The number of elements of a sequence that lie in a set.
RECURSIVE CountIn(_, _)
CountIn(s, S) ==
    IF s = << >> THEN 0 ELSE (IF Head(s) \in S THEN 1 ELSE 0) + CountIn(Tail(s), S)

LowerLetters == 97 .. 122
AsciiLetters == (65 .. 90) \cup (97 .. 122)

\* A pair of machines was built.
Built == prog # "none" /\ made.res = "Ok"

\* The configuration of the test vectors: I, II, III; rings 1, 1, 1;
\* positions 0, 0, 0; reflector B; no plugboard pairs.
ReferenceArgs ==
    /\ Built
    /\ args.rotor_names = <<"I", "II", "III">>
    /\ args.ring_settings = <<1, 1, 1>>
    /\ args.rotor_positions = <<0, 0, 0>>
    /\ args.reflector_type = IF prog = "Enigma" THEN <<98>> ELSE <<66>>
    /\ args.plugboard_connections = << >>

C2_EncryptTotal == Built => fault = "none"

EWTYX == <<69,87,84,89,88>>
LOFUHZZLZOM == <<76,79,70,85,72,90,90,76,90,79,77>>

\* C4: with the reference configuration a fresh Machine returns EWTYX for
\* AAAAA, LOFUHZZLZOM for HELLOXWORLD and the empty text for the empty
\* text, and a fresh Enigma returns the same three in lower case for the
\* inputs in lower case.
C4_ReferenceVectors ==
    (ReferenceArgs /\ Len(outs) >= 1) =>
        IF prog = "Machine"
        THEN /\ msgs[1] = AAAAA => outs[1] = EWTYX
             /\ msgs[1] = HELLOXWORLD => outs[1] = LOFUHZZLZOM
             /\ msgs[1] = << >> => outs[1] = << >>
        ELSE /\ msgs[1] = to_lowercase(AAAAA) => outs[1] = to_lowercase(EWTYX)
             /\ msgs[1] = to_lowercase(HELLOXWORLD) => outs[1] = to_lowercase(LOFUHZZLZOM)
             /\ msgs[1] = << >> => outs[1] = << >>

\* A fresh Enigma with the reference configuration has returned lofuhzzlzom.
C4_Witness ==
    /\ ReferenceArgs /\ prog = "Enigma"
    /\ msgs = << to_lowercase(HELLOXWORLD) >>
    /\ outs = << to_lowercase(LOFUHZZLZOM) >>

(***************************************************************************)
(* C5 and C6: stepping.  An entry of keylog lists the positions in the     *)
(* order right, middle, left; the rotor names are given left to right.     *)
(***************************************************************************)
NotchesOf(name) == {RotorNotches(name)[i] : i \in 1 .. Len(RotorNotches(name))}

ThreeRotors == Built /\ Len(args.rotor_names) = 3

Succ26(x) == (x + 1) % 26

\* C5: in a three-rotor machine every keystroke advances the right rotor
\* by one, the middle rotor by one iff the middle or the right rotor was at
\* a notch before the keystroke, and the left rotor by one iff the middle
\* rotor was; a rotor that does not advance keeps its position.
C5_SteppingRule ==
    ThreeRotors =>
        \A i \in 1 .. Len(keylog) - 1 :
            LET p == keylog[i]
                q == keylog[i + 1]
                rightN == p[1] \in NotchesOf(args.rotor_names[3])
                midN == p[2] \in NotchesOf(args.rotor_names[2])
            IN  /\ q[1] = Succ26(p[1])
                /\ q[2] = IF midN \/ rightN THEN Succ26(p[2]) ELSE p[2]
                /\ q[3] = IF midN THEN Succ26(p[3]) ELSE p[3]

\* A Machine has stepped its middle rotor because the right rotor was at
\* its notch, and then its middle and left rotors because the middle was.
C5_Witness ==
    /\ prog = "Machine" /\ ThreeRotors
    /\ args.rotor_names = <<"I", "II", "III">>
    /\ keylog = << <<21, 3, 0>>, <<22, 4, 0>>, <<23, 5, 1>> >>

\* C6: when a keystroke moves the middle rotor onto one of its notches,
\* the next keystroke advances the middle rotor again and the left rotor
\* with it; rotors I, II, III at (left 0, middle 3, right 21) go to
\* (0, 4, 22) and then to (1, 5, 23).
C6_DoubleStep ==
    ThreeRotors =>
        /\ \A i \in 1 .. Len(keylog) - 2 :
             (/\ keylog[i + 1][2] # keylog[i][2]
              /\ keylog[i + 1][2] \in NotchesOf(args.rotor_names[2]))
             => /\ keylog[i + 2][2] = Succ26(keylog[i + 1][2])
                /\ keylog[i + 2][3] = Succ26(keylog[i + 1][3])
        /\ (args.rotor_names = <<"I", "II", "III">> /\ keylog[1] = <<21, 3, 0>>) =>
             /\ Len(keylog) >= 2 => keylog[2] = <<22, 4, 0>>
             /\ Len(keylog) >= 3 => keylog[3] = <<23, 5, 1>>

\* An Enigma with rotors I, II, III built at (0, 3, 21) has taken two
\* letters, in two calls, and its middle rotor has stepped on both.
C6_Witness ==
    /\ prog = "Enigma" /\ ThreeRotors
    /\ args.rotor_names = <<"I", "II", "III">>
    /\ Len(msgs) = 2 /\ Len(msgs[1]) = 1 /\ Len(msgs[2]) = 1
    /\ Len(keylog) = 3
    /\ keylog[1] = <<21, 3, 0>>
    /\ keylog[2][2] = 4 /\ keylog[3][2] = 5 /\ keylog[3][3] = 1

(***************************************************************************)
(* C7: the rotor state persists across calls.                              *)
(***************************************************************************)
\* A machine built anew from the arguments of the run.
Fresh ==
    IF prog = "Enigma"
    THEN Enigma_new(args.rotor_names, args.ring_settings, args.rotor_positions,
                    args.reflector_type, args.plugboard_connections, "debug").value
    ELSE Machine_new(args.rotor_names, args.ring_settings, args.rotor_positions,
                     args.reflector_type, args.plugboard_connections).value

\* One encrypt call on a fresh machine with all the messages of the run, joined.
FreshRun ==
    IF prog = "Enigma" THEN Enigma_encrypt(Fresh, Concat(msgs))
    ELSE Machine_encrypt(Fresh, Concat(msgs))

\* C7: the outputs of the calls made on machine1, joined, are the output of
\* one call on a fresh machine with the joined messages, which leaves that
\* machine in machine1's state and panics iff a call on machine1 did.
C7_Persistence ==
    Built =>
        LET run == FreshRun
        IN  IF fault = "machine1.encrypt" THEN run.panic
            ELSE /\ ~run.panic
                 /\ run.out = Concat(outs)
                 /\ run.self = machine1
                 /\ keylog = << keylog[1] >> \o run.keys

\* Two calls on an Enigma with reflector b, each with a letter, have
\* returned, and the second letter was enciphered two positions on.
C7_Witness ==
    /\ prog = "Enigma" /\ Built /\ fault = "none"
    /\ args.reflector_type = <<98>>
    /\ Len(outs) = 2
    /\ msgs[1] = <<97>> /\ msgs[2] = <<97>>
    /\ outs[1] # outs[2]
    /\ keylog[3][1] = Succ26(Succ26(keylog[1][1]))

(***************************************************************************)
(* C8, C9: plugboard pairs the constructor must refuse.                    *)
(***************************************************************************)
\* The plugboard pairs among the arguments.
PlugPairs ==
    IF prog = "Enigma" THEN args.plugboard_connections
    ELSE split_whitespace(args.plugboard_connections, << >>)

\* Every pair is two letters, and some letter is in more than one pair.
DuplicatePlugLetter ==
    /\ \A i \in 1 .. Len(PlugPairs) :
         Len(PlugPairs[i]) = 2 /\ AllAsciiLetters(PlugPairs[i])
    /\ \E i, j \in 1 .. Len(PlugPairs) : \E a, b \in 1 .. 2 :
         /\ i < j
         /\ to_lowercase_char(PlugPairs[i][a]) = to_lowercase_char(PlugPairs[j][b])

\* Some pair is not exactly two letters.
MalformedPlugPair ==
    \E i \in 1 .. Len(PlugPairs) : ~(Len(PlugPairs[i]) = 2 /\ AllAlphabetic(PlugPairs[i]))

\* C8 as stated: a letter in more than one plugboard pair makes the
\* constructor return an error; it neither panics nor returns a machine.
C8_DuplicateLetterIsError ==
    (prog # "none" /\ DuplicatePlugLetter) => made.res = "Err"

\* C9 as stated: a plugboard pair that is not exactly two letters makes the
\* constructor return an error; it neither panics nor returns a machine.
C9_MalformedPairIsError ==
    (prog # "none" /\ MalformedPlugPair) => made.res = "Err"

(***************************************************************************)
(* C10: the rotor count.                                                   *)
(***************************************************************************)
ListsDiffer ==
    \/ Len(args.rotor_names) # Len(args.ring_settings)
    \/ Len(args.rotor_names) # Len(args.rotor_positions)

CountError == made.res = "Err" /\ made.kind = "count"

\* The rest of the arguments is acceptable: recognised rotor names, a
\* recognised reflector, and plugboard pairs of two lower-case ASCII
\* letters with no letter in more than one pair.
RestAccepted ==
    /\ \A i \in 1 .. Len(args.rotor_names) : args.rotor_names[i] \in RotorNames
    /\ to_lowercase(args.reflector_type) \in {<<97>>, <<98>>, <<99>>, <<105>>}
    /\ \A i \in 1 .. Len(PlugPairs) :
         Len(PlugPairs[i]) = 2 /\ \A a \in 1 .. 2 : PlugPairs[i][a] \in LowerLetters
    /\ ~DuplicatePlugLetter

\* C10 as stated: Enigma::new returns the rotor-count error exactly when
\* the three lists differ in length or hold no rotor, and accepts one or
\* more recognised rotors with equally long lists.
C10_AtLeastOneRotor ==
    prog = "Enigma" =>
        /\ CountError <=> (ListsDiffer \/ Len(args.rotor_names) < 1)
        /\ (~ListsDiffer /\ Len(args.rotor_names) >= 1 /\ RestAccepted) => made.res = "Ok"

\* C10 amended: Enigma::new returns the rotor-count error exactly when the
\* three lists differ in length or hold fewer than two rotors, and accepts
\* two or more recognised rotors with equally long lists, given a
\* recognised reflector and plugboard pairs of lower-case letters with no
\* letter in more than one pair.
C10_AtLeastTwoRotors ==
    prog = "Enigma" =>
        /\ CountError <=> (ListsDiffer \/ Len(args.rotor_names) < 2)
        /\ (~ListsDiffer /\ Len(args.rotor_names) >= 2 /\ RestAccepted) => made.res = "Ok"

\* Enigma::new has refused a single recognised rotor given with one ring
\* setting, one position, a recognised reflector and no plugboard pairs.
C10_Witness ==
    /\ prog = "Enigma"
    /\ ~ListsDiffer /\ RestAccepted
    /\ Len(args.rotor_names) = 1
    /\ CountError

(***************************************************************************)
(* C11: unknown rotor names and reflector types.                           *)
(***************************************************************************)
UnknownRotor == \E i \in 1 .. Len(args.rotor_names) : args.rotor_names[i] \notin RotorNames

UnknownReflector == to_lowercase(args.reflector_type) \notin {<<97>>, <<98>>, <<99>>, <<105>>}

\* C11: Enigma::new returns an error and no machine whenever a rotor name
\* is not one of I..VIII or the reflector type is not recognised, and when
\* the rotor count is accepted the error is the one of the component
\* constructor that failed first: Rotor::new, then Reflector::new, both
\* before Plugboard::new is called.
C11_UnknownIdentifiers ==
    (prog = "Enigma" /\ (UnknownRotor \/ UnknownReflector)) =>
        /\ made.res = "Err"
        /\ machine1 = NoMachine /\ machine2 = NoMachine
        /\ ~CountError => made.kind = IF UnknownRotor THEN "rotor" ELSE "reflector"

\* Enigma::new has returned the error of Reflector::new for reflector x,
\* given three recognised rotors and a plugboard pair (AB) that
\* Plugboard::new would have panicked on.
C11_Witness ==
    /\ prog = "Enigma"
    /\ args.rotor_names = <<"I", "II", "III">>
    /\ args.reflector_type = <<120>>
    /\ args.plugboard_connections = << <<65, 66>> >>
    /\ made.res = "Err" /\ made.kind = "reflector"

(***************************************************************************)
(* C12: initial position and ring setting modulo 26.                       *)
(***************************************************************************)
\* C12 as stated: a rotor built with any position and ring setting stores
\* both in 0..25 and agrees with the rotor built with the two numbers
\* reduced modulo 26 in forward, backward, at_notch and turnover; rotor I
\* built with 37 and 45 has position 11 and ring setting 19.
C12_PositionAndRingModulo ==
    part.kind = "Rotor" =>
        /\ part.rotor.position \in Wire
        /\ part.rotor.ring_setting \in Wire
        /\ part.rotor.position = part.twin.position
        /\ Part_at_notch(part.family, part.rotor) = Part_at_notch(part.family, part.twin)
        /\ probe.kind = "Rotor" =>
             /\ probe.forward = probe.twin_forward
             /\ probe.backward = probe.twin_backward
        /\ (part.name = "I" /\ part.position = 37 /\ part.ring_setting = 45 /\ part.turns = 0) =>
             part.rotor.position = 11 /\ part.rotor.ring_setting = 19

\* The same for the rotors of components/rotor.rs alone, whose Rotor::new
\* converts both numbers with ClockInt::from.
C12_ClockIntRotor ==
    (part.kind = "Rotor" /\ part.family = "rotor.rs") => C12_PositionAndRingModulo

\* Rotor I of components.rs built with position 0 and ring setting 45 has
\* kept the 45, and its forward(0) has indexed outside the wiring.
C12_RawRingSetting ==
    /\ part.kind = "Rotor" /\ part.family = "components.rs" /\ part.name = "I"
    /\ part.position = 0 /\ part.ring_setting = 45
    /\ part.rotor.ring_setting = 45
    /\ probe.kind = "Rotor" /\ probe.x = 0
    /\ probe.forward = -1 /\ probe.twin_forward \in Wire

(***************************************************************************)
(* C13: backward inverts forward.                                          *)
(***************************************************************************)
\* C13: for each of the eight rotors, built with a position and a ring
\* setting in 0..25 and at every position it is turned to, and for every
\* symbol x in 0..25, forward(x) is in 0..25 and backward(forward(x)) = x.
C13_BackwardInvertsForward ==
    (/\ part.kind = "Rotor" /\ probe.kind = "Rotor"
     /\ part.position \in Wire /\ part.ring_setting \in Wire)
    => /\ probe.forward \in Wire
       /\ probe.round = probe.x

\* Rotor VIII of components/rotor.rs, built at position 25 with ring
\* setting 3 and turned over to position 0, has sent 7 forward to another
\* symbol and that symbol backward to 7.
C13_Witness ==
    /\ part.kind = "Rotor" /\ part.family = "rotor.rs" /\ part.name = "VIII"
    /\ part.position = 25 /\ part.ring_setting = 3
    /\ part.turns = 1 /\ part.rotor.position = 0
    /\ probe.kind = "Rotor" /\ probe.x = 7
    /\ probe.forward # 7 /\ probe.round = 7

(***************************************************************************)
(* C14: the tables are permutations, and involutions where they must be.   *)
(***************************************************************************)
\* A table of 26 entries in which every value of 0..25 occurs exactly once.
IsPermutation(table) ==
    /\ DOMAIN table = Wire
    /\ \A v \in Wire : Cardinality({i \in Wire : table[i] = v}) = 1

IsInvolution(table) ==
    \A i \in Wire : table[i] \in Wire /\ table[table[i]] = i

\* C14: the forward table of every rotor built is a permutation of 0..25;
\* the table of every reflector and of every plugboard its constructor
\* returned is a permutation of 0..25 and an involution, so a symbol sent
\* through it twice comes back.
C14_Bijective ==
    /\ part.kind = "Rotor" => IsPermutation(Part_wiring(part.family, part.rotor))
    /\ (part.kind \in {"Reflector", "Plugboard"} /\ part.res = "Ok") =>
         /\ IsPermutation(part.table)
         /\ IsInvolution(part.table)
         /\ probe.kind = part.kind => probe.twice = probe.x

\* Plugboard::new has returned a plugboard for the pairs az and gk, which
\* sends a to z and z back to a.
C14_Witness ==
    /\ part.kind = "Plugboard" /\ part.family = "rotor.rs" /\ part.res = "Ok"
    /\ part.given = << <<97, 122>>, <<103, 107>> >>
    /\ probe.kind = "Plugboard" /\ probe.x = 0
    /\ probe.forward = 25 /\ probe.twice = 0

(***************************************************************************)
(* C15: the order of the signal path.  Rotor j is counted from the right:  *)
(* rotor 1 is the last name supplied.  Keystroke i is the i-th letter       *)
(* passed to machine1 over all its calls; keylog[i + 1] holds the          *)
(* positions after its stepping.                                           *)
(***************************************************************************)
\* The letters passed to machine1 and the letters it returned, as wires.
WiresIn ==
    LET s == Concat(msgs)
    IN  [i \in 1 .. Len(s) |-> IF prog = "Enigma" THEN to_lowercase_char(s[i]) - 97
                               ELSE char_to_wire(s[i])]

WiresOut ==
    LET s == Concat(outs)
    IN  [i \in 1 .. Len(s) |-> IF prog = "Enigma" THEN s[i] - 97 ELSE s[i] - 65]

\* Rotor j, built anew from its name and ring setting at the position it
\* had after the stepping of keystroke i.
PathRotor(j, i) ==
    LET n == Len(args.rotor_names)
        name == args.rotor_names[n + 1 - j]
        ring == args.ring_settings[n + 1 - j]
        position == keylog[i + 1][j]
    IN  IF prog = "Enigma" THEN Rotor_new(name, position, ring)
        ELSE MRotor_from_name(name, ring, position)

\* forward of a rotor of the struct the run builds.
PathRotorForward(rotor, x) ==
    IF prog = "Enigma" THEN Rotor_forward(rotor, x) ELSE MRotor_forward(rotor, x)

PathForward(j, i, x) == PathRotorForward(PathRotor(j, i), x)

\* The inverse of that forward.
PathInverse(j, i, z) ==
    LET rotor == PathRotor(j, i)
    IN  CHOOSE y \in Wire : PathRotorForward(rotor, y) = z

\* Rn( ... Rj(x) ... ): rotor j first, the left-most rotor last.
RECURSIVE PathUp(_, _, _)
PathUp(j, i, x) ==
    IF j > Len(args.rotor_names) THEN x ELSE PathUp(j + 1, i, PathForward(j, i, x))

\* Rj^-1( ... Rn^-1(z) ... ): the left-most rotor first, rotor j last.
RECURSIVE PathDown(_, _, _)
PathDown(j, i, z) ==
    IF j > Len(args.rotor_names) THEN z ELSE PathInverse(j, i, PathDown(j + 1, i, z))

\* plugboard( R1^-1( ... Rn^-1( reflector( Rn( ... R1( plugboard(x) )))))).
PathExpected(i, x) ==
    LET plug == machine1.plugboard.wiring
        refl == machine1.reflector.wiring
    IN  plug[PathDown(1, i, refl[PathUp(1, i, plug[x])])]

\* Every call has returned and every message holds ASCII letters only.
LettersOnly ==
    /\ Built /\ fault = "none"
    /\ \A k \in 1 .. Len(msgs) : AllAsciiLetters(msgs[k])

Transform(x) ==
    IF prog = "Enigma" THEN Enigma_signal(machine1, x)
    ELSE Machine_signal(machine1, wire_to_char(x))

\* Transform of every wire: entry x + 1 is Transform(x).
TransformTable == SubSeq([k \in 1 .. MAX_VALUE |-> Transform(k - 1)], 1, MAX_VALUE)

\* The reflector is a, b or c, and not the identity i.
CrossingReflector == to_lowercase(args.reflector_type) \in {<<97>>, <<98>>, <<99>>}

\* C16: with reflector a, b or c the transform of the letters is an
\* involution of 0..25 without a fixed point at the rotor state the machine
\* is built at and at every rotor state its first call leaves (by C7 the
\* later calls reach the rotor states of one longer call), and in every run
\* no letter returned is the letter passed; with the identity reflector the
\* transform is the identity.
C16_NoFixedPoint ==
    Built =>
        /\ Len(msgs) <= 1 =>
              LET table == TransformTable
              IN  IF CrossingReflector
                  THEN \A x \in Wire :
                          /\ table[x + 1] \in Wire
                          /\ table[x + 1] # x
                          /\ table[table[x + 1] + 1] = x
                  ELSE \A x \in Wire : table[x + 1] = x
        /\ (CrossingReflector /\ LettersOnly) =>
              \A i \in 1 .. Len(Concat(outs)) : WiresOut[i] # WiresIn[i]

\* An Enigma with rotors I, II, III, reflector C and the pairs az, gk has
\* been passed aa and has returned two other letters; where its rotors are
\* now, a goes to another letter and that letter to a.
C16_Witness ==
    /\ prog = "Enigma" /\ LettersOnly
    /\ args.rotor_names = <<"I", "II", "III">>
    /\ args.reflector_type = <<67>>
    /\ args.plugboard_connections = << <<97, 122>>, <<103, 107>> >>
    /\ msgs = << <<97, 97>> >>
    /\ Len(outs) = 1 /\ outs[1][1] # 97 /\ outs[1][2] # 97
    /\ \E y \in Wire : y # 0 /\ Transform(0) = y /\ Transform(y) = 0

(***************************************************************************)
(* C17: rotors beyond the third.                                           *)
(***************************************************************************)
\* C17: in an Enigma of more than three rotors every rotor to the left of
\* the third from the right is, after every rotation, at the position it
\* was built at.
C17_OnlyThreeRotorsStep ==
    (prog = "Enigma" /\ Built /\ Len(args.rotor_names) > 3) =>
        \A k \in 4 .. Len(args.rotor_names) :
            /\ machine1.rotors[k].position = keylog[1][k]
            /\ \A i \in 1 .. Len(keylog) : keylog[i][k] = keylog[1][k]

\* An Enigma with rotors IV, I, II, III built at 7, 16, 3, 21 has taken two
\* letters: the second stepped rotor I off its notch position 16, and
\* rotor IV is still at 7.
C17_Witness ==
    /\ prog = "Enigma" /\ Built /\ fault = "none"
    /\ args.rotor_names = <<"IV", "I", "II", "III">>
    /\ keylog[1] = <<21, 3, 16, 7>>
    /\ Len(keylog) = 3
    /\ keylog[3] = <<23, 5, 17, 7>>

(***************************************************************************)
(* C18: the stepping period.                                               *)
(***************************************************************************)
\* 26 * 25 * 26: the middle rotor passes its notch position in one letter.
Period == 26 * 25 * 26

Walking == walk.kind = "Walk" /\ ~walk.fault

\* The rotor positions of a walk are those after its second letter when
\* Period more letters have gone in, and at no letter in between.
PeriodExact ==
    (Walking /\ walk.letters > 2 /\ walk.letters < MaxLetters) =>
        /\ walk.letters = 2 + Period =>
              WalkPositions(walk.family, walk.machine) = walk.after2
        /\ walk.letters < 2 + Period =>
              WalkPositions(walk.family, walk.machine) # walk.after2

\* Three rotors (left, middle, right) taken from I to V: notches 16, 4, 21;
\* notches 25, 9, 16; and the same notch 4 three times.
Trios == << <<"I", "II", "III">>, <<"V", "IV", "I">>, <<"II", "II", "II">> >>

\* Every start of every trio in either family as a number: a block of
\* 26 * 26 * 26 numbers for the Enigma and one for the Machine of each trio,
\* and in the block 1 + 676 * left + 26 * middle + right.
Starts == 26 * 26 * 26
Codes == 1 .. (2 * Len(Trios) * Starts)
CodeOf(trio, family, positions) ==
    (2 * (trio - 1) + (IF family = "lib.rs" THEN 0 ELSE 1)) * Starts
      + 1 + 676 * positions[1] + 26 * positions[2] + positions[3]

\* The machines of the trios, built as WalkNew builds them.
EnigmaOf ==
    SubSeq([k \in 1 .. Len(Trios) |->
              Enigma_new(Trios[k], <<0, 0, 0>>, <<0, 0, 0>>, <<98>>, << >>, "release").value],
           1, Len(Trios))
MachineOf ==
    SubSeq([k \in 1 .. Len(Trios) |->
              Machine_new(Trios[k], <<0, 0, 0>>, <<0, 0, 0>>, <<66>>, << >>).value],
           1, Len(Trios))

\* The start with code c after one call of rotate, as a code; -1 if rotate
\* panics.
RotateCode(c) ==
    LET block == (c - 1) \div Starts
        trio == (block \div 2) + 1
        left == ((c - 1) % Starts) \div 676
        middle == ((c - 1) \div 26) % 26
        right == (c - 1) % 26
    IN  IF block % 2 = 0
        THEN LET base == EnigmaOf[trio].rotors
                 r == Enigma_rotate(<< [base[1] EXCEPT !.position = right],
                                       [base[2] EXCEPT !.position = middle],
                                       [base[3] EXCEPT !.position = left] >>)
                 machine == [EnigmaOf[trio] EXCEPT !.rotors = r.rotors]
             IN  IF r.panic THEN -1
                 ELSE CodeOf(trio, "lib.rs", WalkPositions("lib.rs", machine))
        ELSE LET machine ==
                   Machine_rotate([MachineOf[trio] EXCEPT
                                     !.left_rotor.position = left,
                                     !.middle_rotor.position = middle,
                                     !.right_rotor.position = right])
             IN  CodeOf(trio, "machine.rs", WalkPositions("machine.rs", machine))

\* Tables over the codes, as sequences: SubSeq computes every entry of a
\* table once.
Table(g) == SubSeq(g, 1, 2 * Len(Trios) * Starts)
Then(f, h) == LET g == [c \in Codes |-> h[f[c]]] IN Table(g)

\* Letters1 is one letter, Letters2 two letters, Letters4 four, and so on.
Letters1 == LET g == [c \in Codes |-> RotateCode(c)] IN Table(g)
Letters2 == Then(Letters1, Letters1)
Letters4 == Then(Letters2, Letters2)
Letters8 == Then(Letters4, Letters4)
Letters16 == Then(Letters8, Letters8)
Letters32 == Then(Letters16, Letters16)
Letters64 == Then(Letters32, Letters32)
Letters128 == Then(Letters64, Letters64)
Letters256 == Then(Letters128, Letters128)
Letters512 == Then(Letters256, Letters256)
Letters1024 == Then(Letters512, Letters512)
Letters2048 == Then(Letters1024, Letters1024)
Letters4096 == Then(Letters2048, Letters2048)
Letters8192 == Then(Letters4096, Letters4096)
Letters16384 == Then(Letters8192, Letters8192)
\* 16900 = 16384 + 512 + 4, and its largest proper divisors are
\* 8450 = 8192 + 256 + 2, 3380 = 2048 + 1024 + 256 + 32 + 16 + 4 and
\* 1300 = 1024 + 256 + 16 + 4.
Letters20 == Then(Letters16, Letters4)
Letters52 == Then(Letters32, Letters20)
Letters258 == Then(Letters256, Letters2)
Letters276 == Then(Letters256, Letters20)
Letters308 == Then(Letters256, Letters52)
Letters516 == Then(Letters512, Letters4)
Letters1300 == Then(Letters1024, Letters276)
Letters1332 == Then(Letters1024, Letters308)
Letters3380 == Then(Letters2048, Letters1332)
Letters8450 == Then(Letters8192, Letters258)
Letters16900 == Then(Letters16384, Letters516)

\* From every start of every trio in either family: the positions after two
\* letters come back after 16900 more, and after no proper divisor of 16900.
PeriodFromEveryStart ==
    \A c \in Codes :
        /\ Letters1[c] \in Codes
        /\ Letters16900[Letters2[c]] = Letters2[c]
        /\ Letters8450[Letters2[c]] # Letters2[c]
        /\ Letters3380[Letters2[c]] # Letters2[c]
        /\ Letters1300[Letters2[c]] # Letters2[c]

\* A letter steps the rotor at place k of (left, middle, right).
RotorSteps(k) ==
    /\ walk.kind = "Walk" /\ walk'.kind = "Walk"
    /\ WalkPositions(walk.family, walk.machine)[k]
         # WalkPositions(walk'.family, walk'.machine)[k]

\* C18: with three single-notch rotors, from every start, the
\* positions after k + 16900 letters are those after k letters for k >= 2,
\* no smaller shift does this, and once a machine is built a stream of
\* letters that does not end steps each of the three rotors again and again.
C18_SteppingPeriod ==
    /\ [](PeriodExact /\ PeriodFromEveryStart)
    /\ [](walk = NoWalk) \/ []<><<RotorSteps(1)>>_vars
    /\ [](walk = NoWalk) \/ []<><<RotorSteps(2)>>_vars
    /\ [](walk = NoWalk) \/ []<><<RotorSteps(3)>>_vars

\* An Enigma with rotors I, II, III started with the middle and the right
\* rotor at their notches has taken 2 + 16900 letters and its rotors are
\* where they were after the second letter.
C18_Witness ==
    /\ Walking /\ walk.family = "lib.rs" /\ walk.start = <<0, 4, 21>>
    /\ walk.letters = 2 + Period
    /\ walk.after2 = <<1, 5, 23>>
    /\ WalkPositions(walk.family, walk.machine) = <<1, 5, 23>>

=============================================================================
